---- MODULE Spec2Model ----
(***************************************************************************)
(* Model of config/test-server.py: the QoE test target server.             *)
(*                                                                         *)
(* A request target is a sequence of tokens.  Every delimiter the parsing  *)
(* code looks at ("/", "?", "#", ";", "&", "=", "+", "-", " ") and every   *)
(* digit is a token of its own; the other tokens are words that contain no *)
(* delimiter ("health", "slow", "ms", "abc", ...).  Percent escapes are    *)
(* outside the alphabet.                                                   *)
(*                                                                         *)
(* The listener is socketserver.TCPServer: serve_forever accepts one       *)
(* connection, runs its handler to the end (BaseServer.finish_request),    *)
(* and only then accepts the next one.  An exception raised by a handler   *)
(* is caught by BaseServer._handle_request_noblock (handle_error, then     *)
(* shutdown_request): nothing is written and the loop goes on.             *)
(* send_response's own Server and Date headers are the same for every      *)
(* route and are left out of the written stream.                           *)
(***************************************************************************)
EXTENDS Integers, Sequences, FiniteSets, TLC

\* ---------------------------------------------------------------- bounds
MaxReq == 2        \* connections of one run of the listener
MaxFields == 2     \* '&'-separated fields of a query string
Quantum == 250     \* milliseconds by which the clock advances in one step

\* ------------------------------------------------------ program constants
TotalBytes == 1048576
ChunkSize == 8192

VARIABLES
    req,        \* id -> [method, target]: the request line of connection id
    pc,         \* id -> position of the connection / its handler
    queue,      \* connections completed by the kernel, not yet accepted
    serving,    \* the connection serve_forever is handling, 0 when none
    listening,  \* the serve_forever loop is alive
    parsed,     \* id -> [path, query]: locals path and query of the handler
    route,      \* id -> the branch of do_GET / do_HEAD taken
    delay_ms,   \* id -> local delay_ms of the /slow branch
    elapsed,    \* id -> milliseconds spent inside time.sleep
    total_sent, \* id -> local total_sent of the /fixed/1mb.bin branch
    out         \* id -> what the handler wrote to the connection

vars ==
    <<req, pc, queue, serving, listening, parsed, route, delay_ms, elapsed,
      total_sent, out>>

Ids == 1..MaxReq

\* --------------------------------------------------------- token strings
Digits == <<"0", "1", "2", "3", "4", "5", "6", "7", "8", "9">>

IsDigit(t) == \E d \in 1..10 : Digits[d] = t

DigitVal(t) == (CHOOSE d \in 1..10 : Digits[d] = t) - 1

\* str.find: the first index of tok in s, 0 when absent
IndexOf(s, tok) ==
    IF \E i \in 1..Len(s) : s[i] = tok
    THEN CHOOSE i \in 1..Len(s) : s[i] = tok /\ \A j \in 1..(i - 1) : s[j] # tok
    ELSE 0

\* str.rfind
LastIndexOf(s, tok) ==
    IF \E i \in 1..Len(s) : s[i] = tok
    THEN CHOOSE i \in 1..Len(s) : s[i] = tok /\ \A j \in (i + 1)..Len(s) : s[j] # tok
    ELSE 0

\* str.find(tok, from): the first index > from of tok in s, 0 when absent
IndexOfAfter(s, tok, from) ==
    IF \E i \in (from + 1)..Len(s) : s[i] = tok
    THEN CHOOSE i \in (from + 1)..Len(s) :
             s[i] = tok /\ \A j \in (from + 1)..(i - 1) : s[j] # tok
    ELSE 0

RECURSIVE SplitOn(_, _)
\* str.split(sep)
SplitOn(s, sep) ==
    LET i == IndexOf(s, sep)
    IN  IF i = 0 THEN <<s>>
        ELSE <<SubSeq(s, 1, i - 1)>> \o SplitOn(SubSeq(s, i + 1, Len(s)), sep)

\* ------------------------------------------------------------- urlparse
\* urllib.parse.urlparse on a request target that has no scheme and does
\* not begin with "//": the fragment is cut at the first "#", the query at
\* the first "?" of what is left, the params at the first ";" of the last
\* path segment.
UrlParse(target) ==
    LET h == IndexOf(target, "#")
        u1 == IF h = 0 THEN target ELSE SubSeq(target, 1, h - 1)
        q == IndexOf(u1, "?")
        u2 == IF q = 0 THEN u1 ELSE SubSeq(u1, 1, q - 1)
        qs == IF q = 0 THEN <<>> ELSE SubSeq(u1, q + 1, Len(u1))
        p == IndexOfAfter(u2, ";", LastIndexOf(u2, "/"))
        path == IF p = 0 THEN u2 ELSE SubSeq(u2, 1, p - 1)
    IN  [path |-> path, query |-> qs]

\* unquote(s.replace('+', ' ')) on a string without percent escapes
Unquote(s) == [i \in 1..Len(s) |-> IF s[i] = "+" THEN " " ELSE s[i]]

\* urllib.parse.parse_qsl(qs): keep_blank_values=False, strict_parsing=False,
\* separator='&'
ParseQsl(qs) ==
    LET fields == SplitOn(qs, "&")
        Keep(f) == /\ f # <<>>
                   /\ IndexOf(f, "=") > 0
                   /\ IndexOf(f, "=") < Len(f)
        kept == SelectSeq(fields, Keep)
    IN  [i \in 1..Len(kept) |->
            LET e == IndexOf(kept[i], "=")
            IN  [name |-> Unquote(SubSeq(kept[i], 1, e - 1)),
                 value |-> Unquote(SubSeq(kept[i], e + 1, Len(kept[i])))]]

\* urllib.parse.parse_qs(qs).get(name, [default]): the values of name in
\* the order of the query string, <<default>> when there is none
QueryGetFor(pairs, name, default) ==
    LET IsName(p) == p.name = name
        hits == SelectSeq(pairs, IsName)
    IN  IF Len(hits) = 0 THEN <<default>>
        ELSE [i \in 1..Len(hits) |-> hits[i].value]

\* ------------------------------------------------------------------ int
RECURSIVE Strip(_)
\* str.strip() for the blank token
Strip(s) ==
    IF s = <<>> THEN s
    ELSE IF Head(s) = " " THEN Strip(Tail(s))
    ELSE IF s[Len(s)] = " " THEN Strip(SubSeq(s, 1, Len(s) - 1))
    ELSE s

RECURSIVE DigitsVal(_)
DigitsVal(s) ==
    IF s = <<>> THEN 0
    ELSE 10 * DigitsVal(SubSeq(s, 1, Len(s) - 1)) + DigitVal(s[Len(s)])

\* int(s): blanks stripped, one optional sign, then at least one digit;
\* ok = FALSE stands for ValueError
IntParse(s) ==
    LET t == Strip(s)
        signed == t # <<>> /\ Head(t) \in {"-", "+"}
        body == IF signed THEN Tail(t) ELSE t
        good == body # <<>> /\ \A i \in 1..Len(body) : IsDigit(body[i])
    IN  IF ~good THEN [ok |-> FALSE, val |-> 0]
        ELSE [ok |-> TRUE,
              val |-> IF signed /\ Head(t) = "-" THEN 0 - DigitsVal(body)
                      ELSE DigitsVal(body)]

RECURSIVE NatToStr(_)
NatToStr(n) ==
    IF n < 10 THEN Digits[n + 1]
    ELSE NatToStr(n \div 10) \o Digits[(n % 10) + 1]

\* the f-string conversion {delay_ms} of an int
IntToStr(n) == IF n < 0 THEN "-" \o NatToStr(0 - n) ELSE NatToStr(n)


\* ------------------------------------------------------ response stream
Item(k, name, text, n) == [k |-> k, name |-> name, text |-> text, n |-> n]

\* BaseHTTPRequestHandler.send_response / send_header / end_headers
SendResponse(code) == <<Item("status", "", "", code)>>
SendHeader(name, value) == <<Item("header", name, value, 0)>>
EndHeaders == <<Item("end", "", "", 0)>>

\* wfile.write of a text body
WriteText(t) == <<Item("body", "", t, 0)>>

\* wfile.write(b'\x00' * n): the connection is a byte stream, so a run of
\* zero bytes that follows a run of zero bytes extends it
WriteZeros(stream, n) ==
    IF stream # <<>> /\ stream[Len(stream)].k = "zeros"
    THEN [stream EXCEPT ![Len(stream)].n = @ + n]
    ELSE stream \o <<Item("zeros", "", "", n)>>

Min(a, b) == IF a < b THEN a ELSE b

\* the loop condition that ends one chunk too early
LoopGuardShort(sent) == sent + ChunkSize < TotalBytes

\* while total_sent < 1048576
LoopGuard(sent) == sent < TotalBytes

\* remaining = 1048576 - total_sent; chunk = min(chunk_size, remaining)
Chunk(sent) == Min(ChunkSize, TotalBytes - sent)

HealthPath == <<"/", "health">>
SlowPath == <<"/", "slow">>
FixedPath == <<"/", "fixed", "/", "1mb.bin">>
RootPath == <<"/">>
IndexPath == <<"/", "index.html">>

IndexHtml == "<!DOCTYPE html>...Network QoE Test Target...</html>"

HealthHead ==
    SendResponse(200) \o SendHeader("Content-Type", "text/plain")
        \o SendHeader("Cache-Control", "no-cache") \o EndHeaders

FixedHead ==
    SendResponse(200) \o SendHeader("Content-Type", "application/octet-stream")
        \o SendHeader("Content-Length", "1048576")
        \o SendHeader("Cache-Control", "no-cache, no-store, must-revalidate")
        \o SendHeader("Pragma", "no-cache") \o SendHeader("Expires", "0")
        \o EndHeaders

NotFoundHead ==
    SendResponse(404) \o SendHeader("Content-Type", "text/plain") \o EndHeaders

\* the path with its trailing slashes removed and its words in lower case
RECURSIVE NormalizedPath(_)
NormalizedPath(path) ==
    IF Len(path) > 1 /\ path[Len(path)] = "/"
    THEN NormalizedPath(SubSeq(path, 1, Len(path) - 1))
    ELSE [i \in 1..Len(path) |->
            IF path[i] = "Health" THEN "health"
            ELSE IF path[i] = "SLOW" THEN "slow" ELSE path[i]]

\* the comparison done on a normalized path
PathIsLoose(path, literal) == NormalizedPath(path) = literal

\* path == '<literal>'
PathIs(path, literal) == path = literal

\* the chain of if path == ... tests of do_GET
RouteGET(path) ==
    IF PathIs(path, HealthPath) THEN "health"
    ELSE IF PathIs(path, SlowPath) THEN "slow"
    ELSE IF PathIs(path, FixedPath) THEN "fixed"
    ELSE IF PathIs(path, RootPath) \/ PathIs(path, IndexPath) THEN "index"
    ELSE "notfound"

\* the chain of if path == ... tests of do_HEAD
RouteHEAD(path) ==
    IF PathIs(path, HealthPath) THEN "health"
    ELSE IF PathIs(path, FixedPath) THEN "fixed"
    ELSE "notfound"

\* do_GET whose branches do not return: the default 404 follows each
WritesGETFallThrough(r, ms) ==
    (IF r = "health" THEN HealthHead \o WriteText("OK")
     ELSE IF r = "slow"
     THEN HealthHead \o WriteText("Delayed response (" \o IntToStr(ms) \o "ms)")
     ELSE IF r = "index"
     THEN SendResponse(200) \o SendHeader("Content-Type", "text/html")
              \o EndHeaders \o WriteText(IndexHtml)
     ELSE <<>>)
    \o NotFoundHead \o WriteText("Not Found")

\* what the branch r of do_GET writes before it returns, or before its
\* write loop for /fixed/1mb.bin; ms is delay_ms
WritesGET(r, ms) ==
    IF r = "health" THEN HealthHead \o WriteText("OK")
    ELSE IF r = "slow"
    THEN SendResponse(200) \o SendHeader("Content-Type", "text/plain")
             \o SendHeader("Cache-Control", "no-cache") \o EndHeaders
             \o WriteText("Delayed response (" \o IntToStr(ms) \o "ms)")
    ELSE IF r = "fixed" THEN FixedHead
    ELSE IF r = "index"
    THEN SendResponse(200) \o SendHeader("Content-Type", "text/html")
             \o EndHeaders \o WriteText(IndexHtml)
    ELSE NotFoundHead \o WriteText("Not Found")

\* what the branch r of do_HEAD writes
WritesHEAD(r) ==
    IF r = "health" THEN HealthHead
    ELSE IF r = "fixed" THEN FixedHead
    ELSE NotFoundHead

\* query.get('ms', ['1000'])[-1]
MsRawLast(pairs) ==
    LET vs == QueryGetFor(pairs, <<"ms">>, <<"1", "0", "0", "0">>)
    IN  vs[Len(vs)]

\* query.get('ms', ['100'])[0]
MsRawDefault100(pairs) == QueryGetFor(pairs, <<"ms">>, <<"1", "0", "0">>)[1]

\* query.get('ms', ['1000'])[0]
MsRaw(pairs) == QueryGetFor(pairs, <<"ms">>, <<"1", "0", "0", "0">>)[1]

\* time.sleep given a thousandth of the delay
SleepOverShort(id) == elapsed[id] * 1000 >= delay_ms[id]

\* time.sleep(delay_seconds) returns once at least delay_ms/1000.0 seconds
\* have passed
SleepOver(id) == elapsed[id] >= delay_ms[id]

\* ------------------------------------------------------------- requests
Request(m, t) == [method |-> m, target |-> t]

NoRequest == Request("", <<>>)

RECURSIVE Join(_)
\* the fields of a query string joined by "&"
Join(fs) ==
    IF Len(fs) = 0 THEN <<>>
    ELSE IF Len(fs) = 1 THEN fs[1]
    ELSE fs[1] \o <<"&">> \o Join(Tail(fs))

\* request targets of the runs with several connections
CoreRequests ==
    { Request("GET", HealthPath), Request("HEAD", HealthPath),
      Request("GET", SlowPath),
      Request("GET", SlowPath \o <<"?", "ms", "=", "1", "0", "0", "0">>),
      Request("GET", SlowPath \o <<"?", "x", "=", "1">>),
      Request("GET", SlowPath \o <<"?", "ms", "=", "0">>),
      Request("HEAD", SlowPath \o <<"?", "ms", "=", "0">>),
      Request("GET", SlowPath \o <<"?", "ms", "=", "-", "5">>),
      Request("GET", SlowPath \o <<"?", "ms", "=", "abc">>),
      Request("GET", FixedPath), Request("HEAD", FixedPath),
      Request("GET", RootPath), Request("HEAD", RootPath),
      Request("GET", <<"/", "nope">>) }

\* request targets of the runs with one connection: every path below with
\* every query string of at most MaxFields fields
Paths ==
    { HealthPath, SlowPath, FixedPath, RootPath, IndexPath,
      <<"/", "Health">>, <<"/", "SLOW">>, <<"/", "health", "/">>,
      <<"/", "slow", "/">>, <<"/", "nope">>, <<"/", "slow", ";", "v">> }

Fields ==
    { <<"ms", "=", "5">>, <<"ms", "=", "0">>, <<"ms", "=", "-", "5">>,
      <<"ms", "=", "-", "0">>, <<"ms", "=", "+", "7">>, <<"ms", "=", "abc">>,
      <<"ms", "=", "1", "0", "0", "0">>, <<"ms", "=">>, <<"ms">>,
      <<"x", "=", "1">> }

Queries == UNION { [1..k -> Fields] : k \in 0..MaxFields }

Targets ==
    { p \o (IF Len(fs) = 0 THEN <<>> ELSE <<"?">> \o Join(fs)) :
        p \in Paths, fs \in Queries }
    \cup { SlowPath \o <<"#", "?", "ms", "=", "5">> }

RichRequests == { Request(m, t) : m \in {"GET", "HEAD"}, t \in Targets }

\* --------------------------------------------------------------- actions
Init ==
    /\ req = [i \in Ids |-> NoRequest]
    /\ pc = [i \in Ids |-> "idle"]
    /\ queue = <<>>
    /\ serving = 0
    /\ listening = TRUE
    /\ parsed = [i \in Ids |-> [path |-> <<>>, query |-> <<>>]]
    /\ route = [i \in Ids |-> ""]
    /\ delay_ms = [i \in Ids |-> 0]
    /\ elapsed = [i \in Ids |-> 0]
    /\ total_sent = [i \in Ids |-> 0]
    /\ out = [i \in Ids |-> <<>>]

\* a client connects and sends its request line; the kernel queues the
\* connection on the listening socket.  Connections are numbered in the
\* order they are made.
Connect(id, r) ==
    /\ pc[id] = "idle"
    /\ \A j \in Ids : j < id => pc[j] # "idle"
    /\ req' = [req EXCEPT ![id] = r]
    /\ pc' = [pc EXCEPT ![id] = "Queued"]
    /\ queue' = Append(queue, id)
    /\ UNCHANGED <<serving, listening, parsed, route, delay_ms, elapsed, out, total_sent>>

\* serve_forever -> _handle_request_noblock: get_request, then the handler
\* is constructed and reads the request line
Accept ==
    /\ listening
    /\ serving = 0
    /\ queue # <<>>
    /\ serving' = Head(queue)
    /\ queue' = Tail(queue)
    /\ pc' = [pc EXCEPT ![Head(queue)] = "Received"]
    /\ UNCHANGED <<req, listening, parsed, route, delay_ms, elapsed, out, total_sent>>

\* parsed_path = urlparse(self.path); path = ...; query = parse_qs(...)
Parse(id) ==
    /\ serving = id
    /\ pc[id] = "Received"
    /\ pc' = [pc EXCEPT ![id] = "Parsed"]
    /\ \E u \in {UrlParse(req[id].target)} :
         \E q \in {IF req[id].method = "GET" THEN ParseQsl(u.query) ELSE <<>>} :
           parsed' = [parsed EXCEPT ![id] = [path |-> u.path, query |-> q]]
    /\ UNCHANGED <<req, queue, serving, listening, route, delay_ms, elapsed, out, total_sent>>

\* the if path == ... chain picks a branch
Dispatch(id) ==
    /\ serving = id
    /\ pc[id] = "Parsed"
    /\ route' = [route EXCEPT ![id] =
           IF req[id].method = "GET" THEN RouteGET(parsed[id].path)
           ELSE RouteHEAD(parsed[id].path)]
    /\ pc' = [pc EXCEPT ![id] = "Dispatched"]
    /\ UNCHANGED <<req, queue, serving, listening, parsed, delay_ms, elapsed, out, total_sent>>

\* the handler returns: shutdown_request, and serve_forever loops
Return(id) ==
    /\ pc' = [pc EXCEPT ![id] = "Responded"]
    /\ serving' = 0
    /\ listening' = listening

\* an exception that ends the serve_forever loop
RaiseFatal(id) ==
    /\ pc' = [pc EXCEPT ![id] = "Failed"]
    /\ serving' = 0
    /\ listening' = FALSE

\* an exception leaves the handler: _handle_request_noblock catches it,
\* handle_error reports it, shutdown_request closes the connection, and
\* serve_forever loops
Raise(id) ==
    /\ pc' = [pc EXCEPT ![id] = "Failed"]
    /\ serving' = 0
    /\ listening' = listening

\* every branch but /slow and GET /fixed/1mb.bin: the response is written
\* and the handler returns
Respond(id) ==
    /\ serving = id
    /\ pc[id] = "Dispatched"
    /\ route[id] # "slow"
    /\ ~(req[id].method = "GET" /\ route[id] = "fixed")
    /\ out' = [out EXCEPT ![id] =
           IF req[id].method = "GET" THEN WritesGET(route[id], 0)
           ELSE WritesHEAD(route[id])]
    /\ Return(id)
    /\ UNCHANGED <<req, queue, parsed, route, delay_ms, elapsed, total_sent>>

\* GET /fixed/1mb.bin: the headers are written; chunk_size = 8192,
\* total_sent = 0
FixedStart(id) ==
    /\ serving = id
    /\ pc[id] = "Dispatched"
    /\ req[id].method = "GET" /\ route[id] = "fixed"
    /\ out' = [out EXCEPT ![id] = WritesGET("fixed", 0)]
    /\ total_sent' = [total_sent EXCEPT ![id] = 0]
    /\ pc' = [pc EXCEPT ![id] = "Writing"]
    /\ UNCHANGED <<req, queue, serving, listening, parsed, route, delay_ms, elapsed>>

\* one turn of the while loop
FixedChunk(id) ==
    /\ serving = id
    /\ pc[id] = "Writing"
    /\ LoopGuard(total_sent[id])
    /\ out' = [out EXCEPT ![id] = WriteZeros(@, Chunk(total_sent[id]))]
    /\ total_sent' = [total_sent EXCEPT ![id] = @ + Chunk(total_sent[id])]
    /\ UNCHANGED <<req, pc, queue, serving, listening, parsed, route, delay_ms, elapsed>>

\* the while loop ends and the handler returns
FixedReturn(id) ==
    /\ serving = id
    /\ pc[id] = "Writing"
    /\ ~LoopGuard(total_sent[id])
    /\ Return(id)
    /\ UNCHANGED <<req, queue, parsed, route, delay_ms, elapsed, total_sent, out>>

\* /slow: delay_ms = int(query.get('ms', ['1000'])[0]) raises ValueError
SlowBadInt(id) ==
    /\ serving = id
    /\ pc[id] = "Dispatched"
    /\ route[id] = "slow"
    /\ ~IntParse(MsRaw(parsed[id].query)).ok
    /\ Raise(id)
    /\ UNCHANGED <<req, queue, parsed, route, delay_ms, elapsed, out, total_sent>>

\* /slow: delay_ms is set; time.sleep(delay_seconds) raises ValueError
\* ("sleep length must be non-negative") on a negative argument
SlowBadSleep(id) ==
    /\ serving = id
    /\ pc[id] = "Dispatched"
    /\ route[id] = "slow"
    /\ IntParse(MsRaw(parsed[id].query)).ok
    /\ IntParse(MsRaw(parsed[id].query)).val < 0
    /\ delay_ms' = [delay_ms EXCEPT ![id] = IntParse(MsRaw(parsed[id].query)).val]
    /\ Raise(id)
    /\ UNCHANGED <<req, queue, parsed, route, elapsed, out, total_sent>>

\* /slow: delay_ms is set and the handler enters time.sleep
SlowSleep(id) ==
    /\ serving = id
    /\ pc[id] = "Dispatched"
    /\ route[id] = "slow"
    /\ IntParse(MsRaw(parsed[id].query)).ok
    /\ IntParse(MsRaw(parsed[id].query)).val >= 0
    /\ delay_ms' = [delay_ms EXCEPT ![id] = IntParse(MsRaw(parsed[id].query)).val]
    /\ elapsed' = [elapsed EXCEPT ![id] = 0]
    /\ pc' = [pc EXCEPT ![id] = "Sleeping"]
    /\ UNCHANGED <<req, queue, serving, listening, parsed, route, out, total_sent>>

\* time passes while the handler is inside time.sleep
Tick(id) ==
    /\ pc[id] = "Sleeping"
    /\ ~SleepOver(id)
    /\ elapsed' = [elapsed EXCEPT ![id] = @ + Quantum]
    /\ UNCHANGED <<req, pc, queue, serving, listening, parsed, route, delay_ms, out, total_sent>>

\* /slow: time.sleep returns, the response is written, the handler returns
SlowRespond(id) ==
    /\ serving = id
    /\ pc[id] = "Sleeping"
    /\ SleepOver(id)
    /\ out' = [out EXCEPT ![id] = WritesGET("slow", delay_ms[id])]
    /\ Return(id)
    /\ UNCHANGED <<req, queue, parsed, route, delay_ms, elapsed, total_sent>>

Step(id) ==
    \/ Parse(id)
    \/ Dispatch(id)
    \/ Respond(id)
    \/ FixedStart(id)
    \/ FixedChunk(id)
    \/ FixedReturn(id)
    \/ SlowBadInt(id)
    \/ SlowBadSleep(id)
    \/ SlowSleep(id)
    \/ Tick(id)
    \/ SlowRespond(id)

Next ==
    \/ \E id \in Ids : pc[id] = "idle" /\ \E r \in CoreRequests : Connect(id, r)
    \/ Accept
    \/ \E id \in Ids : Parse(id)
    \/ \E id \in Ids : Dispatch(id)
    \/ \E id \in Ids : Respond(id)
    \/ \E id \in Ids : FixedStart(id)
    \/ \E id \in Ids : FixedChunk(id)
    \/ \E id \in Ids : FixedReturn(id)
    \/ \E id \in Ids : SlowBadInt(id)
    \/ \E id \in Ids : SlowBadSleep(id)
    \/ \E id \in Ids : SlowSleep(id)
    \/ \E id \in Ids : Tick(id)
    \/ \E id \in Ids : SlowRespond(id)

Spec == Init /\ [][Next]_vars

\* request targets of the runs checked for progress: one for each way a
\* handler can end
LiveRequests ==
    { Request("GET", HealthPath),
      Request("GET", SlowPath),
      Request("GET", SlowPath \o <<"?", "ms", "=", "0">>),
      Request("GET", SlowPath \o <<"?", "ms", "=", "-", "5">>),
      Request("GET", SlowPath \o <<"?", "ms", "=", "abc">>),
      Request("GET", FixedPath) }

NextLive ==
    \/ \E id \in Ids : pc[id] = "idle" /\ \E r \in LiveRequests : Connect(id, r)
    \/ Accept
    \/ \E id \in Ids : Parse(id)
    \/ \E id \in Ids : Dispatch(id)
    \/ \E id \in Ids : Respond(id)
    \/ \E id \in Ids : FixedStart(id)
    \/ \E id \in Ids : FixedChunk(id)
    \/ \E id \in Ids : FixedReturn(id)
    \/ \E id \in Ids : SlowBadInt(id)
    \/ \E id \in Ids : SlowBadSleep(id)
    \/ \E id \in Ids : SlowSleep(id)
    \/ \E id \in Ids : Tick(id)
    \/ \E id \in Ids : SlowRespond(id)

\* serve_forever and the handler it runs are one thread: whenever it has a
\* step to take (accept, a statement of the handler, the clock moving on
\* while it sleeps) it eventually takes one
ServerStep == Accept \/ \E id \in Ids : Step(id)

Fairness == WF_vars(ServerStep)

FairSpec == Init /\ [][NextLive]_vars /\ Fairness

\* one connection, with every request target of Targets
NextOne ==
    \/ pc[1] = "idle" /\ \E r \in RichRequests : Connect(1, r)
    \/ Accept
    \/ Parse(1)
    \/ Dispatch(1)
    \/ Respond(1)
    \/ FixedStart(1)
    \/ FixedChunk(1)
    \/ FixedReturn(1)
    \/ SlowBadInt(1)
    \/ SlowBadSleep(1)
    \/ SlowSleep(1)
    \/ Tick(1)
    \/ SlowRespond(1)

SpecOne == Init /\ [][NextOne]_vars

\* ============================================================== claims
\* what a client reads from the connection
CountOf(stream, kind) ==
    LET Is(x) == x.k = kind IN Len(SelectSeq(stream, Is))

StatusOf(stream) ==
    IF stream # <<>> /\ stream[1].k = "status" THEN stream[1].n ELSE 0

HeadersOf(stream) ==
    LET Is(x) == x.k = "header" IN SelectSeq(stream, Is)

BodyOf(stream) ==
    LET Is(x) == x.k \in {"body", "zeros"} IN SelectSeq(stream, Is)

\* the path component and the raw query string of the request of id
PathOf(id) == UrlParse(req[id].target).path

QueryOf(id) == UrlParse(req[id].target).query

IsGet(id) == req[id].method = "GET"

IsHead(id) == req[id].method = "HEAD"

Ended(id) == pc[id] \in {"Responded", "Failed"}

\* the name and the value of one field of a raw query string
NameOf(f) ==
    IF IndexOf(f, "=") = 0 THEN f ELSE SubSeq(f, 1, IndexOf(f, "=") - 1)

ValueOf(f) ==
    IF IndexOf(f, "=") = 0 THEN <<>> ELSE SubSeq(f, IndexOf(f, "=") + 1, Len(f))

\* the occurrences of the parameter ms in the raw query string, in order
MsOccurrences(id) ==
    LET IsMs(f) == NameOf(f) = <<"ms">>
    IN  SelectSeq(SplitOn(QueryOf(id), "&"), IsMs)

\* the integer the /slow branch is asked to wait for
RequestedMs(id) == IntParse(MsRaw(ParseQsl(QueryOf(id))))

SlowText(n) == "Delayed response (" \o IntToStr(n) \o "ms)"

SlowResponse(n) ==
    << Item("status", "", "", 200),
       Item("header", "Content-Type", "text/plain", 0),
       Item("header", "Cache-Control", "no-cache", 0),
       Item("end", "", "", 0),
       Item("body", "", SlowText(n), 0) >>

NotFoundGet ==
    << Item("status", "", "", 404),
       Item("header", "Content-Type", "text/plain", 0),
       Item("end", "", "", 0),
       Item("body", "", "Not Found", 0) >>

NotFoundHeadOnly ==
    << Item("status", "", "", 404),
       Item("header", "Content-Type", "text/plain", 0),
       Item("end", "", "", 0) >>

\* ------------------------------------------------------------------ C1
\* C1: while one /slow request is inside its delay, a request that has
\* arrived and waits at the head of the queue can be taken up by the
\* server without waiting for the delay to end.
Counterexample_C1 ==
    \A i \in Ids, j \in Ids :
        (pc[i] = "Sleeping" /\ ~SleepOver(i) /\ pc[j] = "Queued"
            /\ queue # <<>> /\ Head(queue) = j)
        => ENABLED Accept

\* ------------------------------------------------------------------ C2
\* C2: on /health, /slow and /fixed/1mb.bin a HEAD and a GET of the same
\* path return the same status code and the same headers, and the HEAD
\* writes no body.
Counterexample_C2 ==
    \A i \in Ids, j \in Ids :
        (IsGet(i) /\ IsHead(j) /\ PathOf(i) = PathOf(j)
            /\ PathOf(i) \in {HealthPath, SlowPath, FixedPath}
            /\ pc[i] = "Responded" /\ pc[j] = "Responded")
        => /\ StatusOf(out[i]) = StatusOf(out[j])
           /\ HeadersOf(out[i]) = HeadersOf(out[j])
           /\ BodyOf(out[j]) = <<>>

\* ------------------------------------------------------------------ C3
\* C3: GET /slow with a zero or negative integer ms never raises: it ends
\* with the 200 response whose body carries that integer, with no wait.
Counterexample_C3 ==
    \A i \in Ids :
        (IsGet(i) /\ PathOf(i) = SlowPath /\ pc[i] # "idle"
            /\ RequestedMs(i).ok /\ RequestedMs(i).val <= 0)
        => /\ pc[i] # "Failed"
           /\ pc[i] = "Responded" =>
                  /\ out[i] = SlowResponse(RequestedMs(i).val)
                  /\ elapsed[i] = 0

\* ------------------------------------------------------------------ C4
\* the GET /slow requests whose handler raises: ms is no integer, or is
\* negative
RaisingSlow(id) ==
    /\ IsGet(id) /\ PathOf(id) = SlowPath
    /\ ~RequestedMs(id).ok \/ RequestedMs(id).val < 0

FailedOnInt(id) ==
    /\ pc[id] = "Failed"
    /\ IsGet(id) /\ PathOf(id) = SlowPath /\ ~RequestedMs(id).ok

\* what holds in every state once a request has failed on its ms value
FailsAlone ==
    \A i \in Ids :
        FailedOnInt(i) =>
            /\ out[i] = <<>>
            /\ listening
            /\ serving # i
            /\ (serving = 0 /\ queue # <<>>) => ENABLED Accept
            /\ \A j \in Ids :
                   (j > i /\ pc[j] = "Responded") =>
                       /\ CountOf(out[j], "status") = 1
                       /\ CountOf(out[j], "end") = 1

\* C5: a GET /slow with a non-integer ms fails alone: nothing is written
\* for it, the listener stays alive and free to accept the next queued
\* connection, a request answered after the failure gets one whole
\* response, and every connection queued after the failure is eventually
\* handled to its end.
Theorem_C5 ==
    /\ []FailsAlone
    /\ \A j \in Ids :
           (pc[j] = "Queued" /\ \E i \in Ids : i < j /\ FailedOnInt(i))
               ~> (pc[j] \in {"Responded", "Failed"})

Witness_C5 ==
    \E i \in Ids, j \in Ids :
        /\ FailedOnInt(i)
        /\ j > i /\ pc[j] = "Responded"
        /\ StatusOf(out[j]) = 200

\* ------------------------------------------------------------------ C6
FixedGet(id) == IsGet(id) /\ PathOf(id) = FixedPath

ContentLengthOf(stream) ==
    LET Is(x) == x.k = "header" /\ x.name = "Content-Length"
    IN  SelectSeq(stream, Is)

\* the write loop never passes 1,048,576, the body on the connection is
\* the zero bytes sent so far, and the finished response is the same on
\* every call
FixedBodyExact ==
    \A i \in Ids :
        FixedGet(i) =>
            /\ pc[i] # "Failed"
            /\ pc[i] = "Writing" =>
                   /\ total_sent[i] <= 1048576
                   /\ \/ /\ total_sent[i] = 0
                         /\ BodyOf(out[i]) = <<>>
                      \/ /\ total_sent[i] > 0
                         /\ BodyOf(out[i]) = <<Item("zeros", "", "", total_sent[i])>>
            /\ pc[i] = "Responded" =>
                   /\ StatusOf(out[i]) = 200
                   /\ BodyOf(out[i]) = <<Item("zeros", "", "", 1048576)>>
                   /\ Len(ContentLengthOf(out[i])) = 1
                   /\ ContentLengthOf(out[i])[1].text = IntToStr(1048576)
                   /\ \A j \in Ids :
                          (FixedGet(j) /\ pc[j] = "Responded") => out[j] = out[i]

\* C6: a GET /fixed/1mb.bin never fails, its write loop ends, and the
\* body then on the connection is one run of exactly 1,048,576 zero bytes,
\* the number the Content-Length header gives, the same on every call
\* whatever was requested before.
Theorem_C6 ==
    /\ []FixedBodyExact
    /\ \A i \in Ids :
           (FixedGet(i) /\ pc[i] = "Writing") ~> (pc[i] = "Responded")

Witness_C6 ==
    \E i \in Ids, j \in Ids :
        /\ i < j
        /\ pc[i] \in {"Responded", "Failed"} /\ ~FixedGet(i)
        /\ FixedGet(j) /\ pc[j] = "Responded"
        /\ BodyOf(out[j]) = <<Item("zeros", "", "", 1048576)>>

\* ------------------------------------------------------------------ C7
\* a GET /slow whose ms is an integer >= 0
SlowNonNeg(id) ==
    /\ IsGet(id) /\ PathOf(id) = SlowPath
    /\ RequestedMs(id).ok /\ RequestedMs(id).val >= 0

\* nothing of the response of a /slow request is on the connection before
\* the whole delay has passed, and the request is never aborted
NoEarlyWrite ==
    \A i \in Ids :
        (SlowNonNeg(i) /\ pc[i] # "idle") =>
            /\ pc[i] # "Failed"
            /\ out[i] # <<>> =>
                   /\ elapsed[i] >= RequestedMs(i).val
                   /\ out[i] = SlowResponse(RequestedMs(i).val)

GetRoutes == {HealthPath, SlowPath, FixedPath, RootPath, IndexPath}

HeadRoutes == {HealthPath, FixedPath}

SlowWithoutMs(id) ==
    /\ IsGet(id) /\ PathOf(id) = SlowPath /\ pc[id] # "idle"
    /\ MsOccurrences(id) = <<>>

\* a GET /slow?ms=1000
SlowWith1000(id) ==
    /\ IsGet(id) /\ PathOf(id) = SlowPath
    /\ QueryOf(id) = <<"ms", "=", "1", "0", "0", "0">>

\* C9: a GET /slow without ms never fails, waits 1000 ms and answers
\* 200 'Delayed response (1000ms)'; its delay and its response are those
\* of a GET /slow?ms=1000.
Theorem_C9 ==
    \A i \in Ids :
        SlowWithoutMs(i) =>
            /\ pc[i] # "Failed"
            /\ pc[i] \in {"Sleeping", "Responded"} => delay_ms[i] = 1000
            /\ pc[i] = "Responded" =>
                   /\ elapsed[i] >= 1000
                   /\ out[i] = SlowResponse(1000)
            /\ \A j \in Ids :
                   SlowWith1000(j) =>
                       /\ pc[j] # "Failed"
                       /\ (pc[i] \in {"Sleeping", "Responded"}
                             /\ pc[j] \in {"Sleeping", "Responded"})
                          => delay_ms[i] = delay_ms[j]
                       /\ (pc[i] = "Responded" /\ pc[j] = "Responded")
                          => out[i] = out[j]

Witness_C9 ==
    \E i \in Ids, j \in Ids :
        /\ SlowWithoutMs(i) /\ SlowWith1000(j)
        /\ pc[i] = "Responded" /\ pc[j] = "Responded"
        /\ out[i] = out[j]

\* ----------------------------------------------------------------- C10
\* a GET /slow in whose query string ms occurs more than once
SlowManyMs(id) ==
    /\ IsGet(id) /\ PathOf(id) = SlowPath /\ Len(MsOccurrences(id)) >= 2

\* what the request of id has to be like when the integer parse gave r
OutcomeIs(id, r) ==
    /\ pc[id] = "Sleeping" => r.ok /\ r.val >= 0 /\ delay_ms[id] = r.val
    /\ pc[id] = "Responded" =>
           /\ r.ok /\ r.val >= 0
           /\ delay_ms[id] = r.val
           /\ elapsed[id] >= r.val
           /\ out[id] = SlowResponse(r.val)
    /\ pc[id] = "Failed" => ~r.ok \/ r.val < 0

\* C10 as stated: the request behaves as if its query string were the
\* first occurrence of ms alone.
Counterexample_C10 ==
    \A i \in Ids :
        SlowManyMs(i) =>
            OutcomeIs(i, IntParse(MsRaw(ParseQsl(MsOccurrences(i)[1]))))

\* the value of the first occurrence that has a value, the default when
\* no occurrence has one
RECURSIVE FirstValued(_)
FirstValued(occ) ==
    IF occ = <<>> THEN <<"1", "0", "0", "0">>
    ELSE IF ValueOf(Head(occ)) # <<>> THEN ValueOf(Head(occ))
    ELSE FirstValued(Tail(occ))

\* C10 as amended: when ms occurs more than once, the first occurrence
\* that has a non-empty value decides the delay and the number in the
\* body; occurrences without a value ('ms', 'ms=') are skipped, the
\* default 1000 is used when every occurrence is skipped, and the
\* occurrences after the deciding one have no effect.
Theorem_C10 ==
    \A i \in Ids :
        SlowManyMs(i) =>
            OutcomeIs(i, IntParse(Unquote(FirstValued(MsOccurrences(i)))))

Witness_C10 ==
    \E i \in Ids :
        /\ SlowManyMs(i)
        /\ QueryOf(i) = <<"ms", "=", "5", "&", "ms", "=", "abc">>
        /\ pc[i] = "Responded"
        /\ out[i] = SlowResponse(5)

====
